---- MODULE Spec2Model ----
(***************************************************************************)
(* Model of the experiment-reporting scripts of hypergraph-k-cut:          *)
(*   scripts/sqlplot-cutoff.py  suboptimality curves per cutoff budget     *)
(*   scripts/gathercuts.py      CSV summary of .cut/.hgr pairs             *)
(*   scripts/merge.py           overlay of constant-rank discovery curves  *)
(*   scripts/kcore.py           batch k-core decomposition of a tar file   *)
(* Each script is a separate specification over its own variables.         *)
(***************************************************************************)
EXTENDS Integers, Sequences, FiniteSets

VARIABLES
    \* sqlplot-cutoff.py
    cpc,        \* position in the script
    cutoffs,    \* budgets parsed from the header line of the current file
    line,       \* the algorithm row last processed: [algo, factors]
    plotted,    \* plt.plot calls made for the current row
    \* gathercuts.py
    gpc,        \* position in the script
    dir,        \* the .cut/.hgr pairs of the source directory, in listing order
    gi,         \* number of pairs the loop has completed
    out,        \* lines written to stdout
    gerr,       \* the exception that ended the run, "" if none
    \* merge.py
    mpc,        \* position in the script
    folders,    \* per rank folder: the hypergraph sizes of its data.db rows
    mi,         \* number of folders processed
    min_x,      \* running left limit: None or <<x>>
    max_x,      \* running right limit: None or <<x>>
    xlim,       \* argument pair of plt.xlim, <<>> before the call
    \* kcore.py
    kpc,        \* position in the script
    kenv,       \* the run's surroundings: whether --bin is given, and whether
                \* the hkcore binary and ls can be started
    archive,    \* entries of the tar file in archive order
    tinfos,     \* the sorted list of regular-file entries
    ki,         \* index into tinfos of the entry being handled
    running,    \* child processes started and not yet waited for
    klog        \* what has happened: entries extracted, entries hkcore was
                \* started on, non-zero exits, messages about them, the end

cvars == <<cpc, cutoffs, line, plotted>>
gvars == <<gpc, dir, gi, out, gerr>>
mvars == <<mpc, folders, mi, min_x, max_x, xlim>>
kvars == <<kpc, kenv, archive, tinfos, ki, running, klog>>
vars == <<cpc, cutoffs, line, plotted, gpc, dir, gi, out, gerr,
          mpc, folders, mi, min_x, max_x, xlim,
          kpc, kenv, archive, tinfos, ki, running, klog>>

\* Python's None, for a variable that otherwise holds <<value>>.
None == <<>>

\* Sequences over S of length at most n.
SeqsUpTo(S, n) == UNION {[1..k -> S] : k \in 0..n}

Min2(a, b) == IF a <= b THEN a ELSE b
Max2(a, b) == IF a >= b THEN a ELSE b

(***************************************************************************)
(* sqlplot-cutoff.py                                                       *)
(***************************************************************************)

\* Largest number of columns of a header or of an algorithm row.
MaxCols == 3

\* A float is kept as e10 * 10^10 + tenths / 10 with tenths / 10 < 10^10, so
\* that both thresholds of the script (1.0 and 1e10) are exact.
Float(e10, tenths) == [e10 |-> e10, tenths |-> tenths]

\* f < g on floats
FLt(f, g) == \/ f.e10 < g.e10
             \/ f.e10 = g.e10 /\ f.tenths < g.tenths

\* f <= g on floats
FLe(f, g) == f = g \/ FLt(f, g)

\* The literal 1e10 of line 56.
Sentinel == Float(1, 0)

\* The literal 1.0 of line 67.
One == Float(0, 10)

\* Budgets a header may hold (percentages).
Budgets == {10, 50, 90}

\* Factors a row may hold: 0.5, 1.0, 2.5 and the 1e10 marker.
FactorValues == {Float(0, 5), Float(0, 10), Float(0, 25), Float(1, 0)}

Algos == {"A", "B"}

Headers == SeqsUpTo(Budgets, MaxCols)
FactorRows == SeqsUpTo(FactorValues, MaxCols)

\* zip(cutoffs, factors): positional pairs, as long as the shorter list.
Zip(cs, fs) == [i \in 1..Min2(Len(cs), Len(fs)) |-> <<cs[i], fs[i]>>]

\* A filter that lets the value 1e10 itself through (<= for <).
KeepFactorInclusive(factor) == FLe(factor, Sentinel)

\* The condition of the comprehension of line 56.
KeepFactor(factor) == FLt(factor, Sentinel)

\* Line 56: cutoff_factor = [(c, f) for c, f in zip(cutoffs, factors) if f < 1e10]
FilterSentinel(cs, fs) ==
    LET IsKept(p) == KeepFactor(p[2])
    IN  SelectSeq(Zip(cs, fs), IsKept)

\* A predicate that already rejects the pair that reaches 1.0.
PredicateCallDropsOptimum(seen, tup) ==
    IF seen THEN <<FALSE, seen>>
    ELSE IF FLe(tup[2], One) THEN <<FALSE, TRUE>>
    ELSE <<TRUE, seen>>

\* Predicate.__call__ on one tuple: <<returned value, new seen_cut_factor_one>>.
PredicateCall(seen, tup) ==
    IF seen THEN <<FALSE, seen>>
    ELSE IF FLe(tup[2], One) THEN <<TRUE, TRUE>>
    ELSE <<TRUE, seen>>

\* itertools.takewhile(Predicate(), s) from position i with the predicate's
\* state seen: yields items until the predicate first returns False.
RECURSIVE TakeWhileFrom(_, _, _)
TakeWhileFrom(s, i, seen) ==
    IF i > Len(s) THEN <<>>
    ELSE LET r == PredicateCall(seen, s[i])
         IN  IF r[1] THEN <<s[i]>> \o TakeWhileFrom(s, i + 1, r[2])
             ELSE <<>>

\* Line 70: list(takewhile(Predicate(), cutoff_factor))
TakeWhilePredicate(s) == TakeWhileFrom(s, 1, FALSE)

\* Lines 56-70: the curve of one row.
CutoffFactor(cs, fs) == TakeWhilePredicate(FilterSentinel(cs, fs))

\* A plotting step that leaves a row without points out.
PlotCallsSkipEmpty(algo, cf) ==
    IF cf = <<>> THEN <<>>
    ELSE << [xs     |-> [i \in 1..Len(cf) |-> cf[i][1]],
             ys     |-> [i \in 1..Len(cf) |-> cf[i][2]],
             marker |-> ~(Len(cf) > 1),
             label  |-> algo] >>

\* Lines 72-78: the plt.plot call made for a row.
PlotCalls(algo, cf) ==
    << [xs     |-> [i \in 1..Len(cf) |-> cf[i][1]],
        ys     |-> [i \in 1..Len(cf) |-> cf[i][2]],
        marker |-> ~(Len(cf) > 1),
        label  |-> algo] >>

\* No row of the current file has been read yet.
NoLine == [algo |-> "", factors |-> <<>>, read |-> FALSE]

\* The script at line 34, no file opened yet; the other scripts at rest.
CInit ==
    /\ cpc = "listdir"
    /\ cutoffs = <<>>
    /\ line = NoLine
    /\ plotted = <<>>
    /\ gpc = "idle" /\ dir = <<>> /\ gi = 0 /\ out = <<>> /\ gerr = ""
    /\ mpc = "idle" /\ folders = <<>> /\ mi = 0
    /\ min_x = None /\ max_x = None /\ xlim = <<>>
    /\ kpc = "idle" /\ kenv = <<>> /\ archive = <<>> /\ tinfos = <<>> /\ ki = 0
    /\ running = {} /\ klog = <<>>

\* Lines 36-46: next file of the listing, header line parsed into cutoffs.
ReadHeader ==
    /\ cpc = "listdir"
    /\ \E h \in Headers : cutoffs' = h
    /\ line' = NoLine
    /\ plotted' = <<>>
    /\ cpc' = "rows"
    /\ UNCHANGED <<gvars, mvars, kvars>>

\* Lines 48-78: one algorithm row is read, filtered, truncated and plotted.
\* A fresh Predicate() is built for every row (line 70).
ProcessRow ==
    /\ cpc = "rows"
    /\ \E algo \in Algos, fs \in FactorRows :
          /\ line' = [algo |-> algo, factors |-> fs, read |-> TRUE]
          /\ plotted' = PlotCalls(algo, CutoffFactor(cutoffs, fs))
    /\ cpc' = "plotted"
    /\ UNCHANGED <<cutoffs, gvars, mvars, kvars>>

\* Line 48: the loop goes on to the next row of the file.
NextRow ==
    /\ cpc = "plotted"
    /\ line' = NoLine
    /\ plotted' = <<>>
    /\ cpc' = "rows"
    /\ UNCHANGED <<cutoffs, gvars, mvars, kvars>>

\* Lines 80-82: the file has no further row: legend, savefig, close.
SaveFig ==
    /\ cpc \in {"rows", "plotted"}
    /\ cpc' = "listdir"
    /\ cutoffs' = <<>>
    /\ line' = NoLine
    /\ plotted' = <<>>
    /\ UNCHANGED <<gvars, mvars, kvars>>

\* The listing of line 34 is exhausted.
CFinish ==
    /\ cpc = "listdir"
    /\ cpc' = "done"
    /\ UNCHANGED <<cutoffs, line, plotted, gvars, mvars, kvars>>

CNext == ReadHeader \/ ProcessRow \/ NextRow \/ SaveFig \/ CFinish

(***************************************************************************)
(* gathercuts.py                                                           *)
(***************************************************************************)

\* Largest number of .cut files in the source directory.
MaxPairs == 2

\* Largest number of vertex ids on one side of a cut.
MaxSide == 2

\* Largest vertex count a .hgr file declares.
MaxVertices == 4

CutValues == {2, 7}
EdgeCounts == {5}

\* The vertex ids lo, lo + 1, ..., lo + n - 1.
Ids(lo, n) == [i \in 1..n |-> lo + i - 1]

\* A .cut file with its .hgr file: the cut file's three lines as tokens, and
\* the two numbers of the first line of the .hgr file.
PairFiles ==
    {[name         |-> "h",
      value_line   |-> <<"cut", "value", v>>,
      p1_line      |-> <<"side", "0:">> \o Ids(1, a),
      p2_line      |-> <<"side", "1:">> \o Ids(a + 1, b),
      num_edges    |-> e,
      num_vertices |-> n] :
        v \in CutValues, a \in 0..MaxSide, b \in 0..MaxSide,
        e \in EdgeCounts, n \in 1..MaxVertices}

\* parse_value: the last space-separated token of the line.
parse_value(l) == l[Len(l)]

\* parse_partition: the tokens after the first two.
parse_partition(l) == SubSeq(l, 3, Len(l))

\* 2^n modulo 125.
RECURSIVE Pow2Mod125(_)
Pow2Mod125(n) == IF n = 0 THEN 1 ELSE (2 * Pow2Mod125(n - 1)) % 125

\* The least e >= 0 with k * 2^e >= 1000: k / 2000 lies in [2^-(e+1), 2^-e).
RECURSIVE BinadeOf(_)
BinadeOf(k) == IF k >= 1000 THEN 0 ELSE 1 + BinadeOf(2 * k)

\* For an odd k < 2000, how the double nearest to k / 2000 compares with
\* k / 2000: -1 below, 0 equal, 1 above. The double is k / 2000 rounded to 53
\* significant bits, that is k * 2^(49 + e) / 125 rounded to an integer, so
\* the remainder of k * 2^(49 + e) modulo 125 decides.
FloatErrorSign(k) ==
    LET rem == ((k % 125) * Pow2Mod125(49 + BinadeOf(k))) % 125
    IN  IF rem = 0 THEN 0 ELSE IF 2 * rem < 125 THEN -1 ELSE 1

\* round(num / den, 3) in thousandths, for 0 < num <= den. num / den is the
\* double nearest to the quotient, and round() rounds that double: to the
\* nearest thousandth, and to the even one when the double lies exactly
\* between two. When the quotient itself lies between two thousandths
\* (it is k / 2000 for an odd k) the double does so only if it holds the
\* quotient exactly; otherwise its error decides (43 / 80 gives 0.537,
\* 49 / 80 gives 0.613).
Round3(num, den) ==
    LET q == (1000 * num) \div den
        r == (1000 * num) % den
    IN  IF 2 * r < den THEN q
        ELSE IF 2 * r > den THEN q + 1
        ELSE LET sign == FloatErrorSign(2 * q + 1)
             IN  IF sign < 0 THEN q
                 ELSE IF sign > 0 THEN q + 1
                 ELSE IF q % 2 = 0 THEN q ELSE q + 1

\* The keyword arguments print() accepts.
PrintKeywords == {"sep", "end", "file", "flush"}

\* print(*args, kw=val): the line written, or the TypeError raised for a
\* keyword print() does not have.
py_print(args, kw, val) ==
    IF kw \in PrintKeywords
    THEN [ok |-> TRUE, text |-> [fields |-> args, sep |-> val]]
    ELSE [ok |-> FALSE, err |-> "TypeError"]

\* Line 31.
Banner ==
    [fields |-> <<"skewedness = # in larger partition / # vertices">>,
     sep |-> " "]

\* Lines 32-33: the call that is to write the column names.
PrintColumnNames ==
    py_print(<<"name", "# vertices", "# edges", "cut value", "skewedness",
            "# in smaller partition", "# in larger partition">>, "split", ",")

\* Line 48.
VertexCountOk(f) ==
    f.num_vertices = Len(parse_partition(f.p1_line)) + Len(parse_partition(f.p2_line))

\* Lines 50-56: the row printed for a pair, skewedness in thousandths.
Row(f) ==
    LET a  == Len(parse_partition(f.p1_line))
        b  == Len(parse_partition(f.p2_line))
        p1 == IF a > b THEN b ELSE a
        p2 == IF a > b THEN a ELSE b
    IN  py_print(<<f.name, f.num_vertices, f.num_edges, parse_value(f.value_line),
                Round3(p2, f.num_vertices), p1, p2>>, "sep", ",")

\* The script at line 31 with any source directory; the other scripts at rest.
GInit ==
    /\ gpc = "banner"
    /\ dir \in SeqsUpTo(PairFiles, MaxPairs)
    /\ gi = 0
    /\ out = <<>>
    /\ gerr = ""
    /\ cpc = "idle" /\ cutoffs = <<>> /\ line = NoLine /\ plotted = <<>>
    /\ mpc = "idle" /\ folders = <<>> /\ mi = 0
    /\ min_x = None /\ max_x = None /\ xlim = <<>>
    /\ kpc = "idle" /\ kenv = <<>> /\ archive = <<>> /\ tinfos = <<>> /\ ki = 0
    /\ running = {} /\ klog = <<>>

\* Line 31.
PrintBanner ==
    /\ gpc = "banner"
    /\ out' = Append(out, Banner)
    /\ gpc' = "header"
    /\ UNCHANGED <<dir, gi, gerr, cvars, mvars, kvars>>

\* Lines 32-33: print() is called with the keyword split, which it rejects;
\* the uncaught TypeError ends the script.
PrintHeader ==
    /\ gpc = "header"
    /\ LET r == PrintColumnNames
       IN  IF r.ok
           THEN /\ out' = Append(out, r.text)
                /\ gpc' = "loop"
                /\ gerr' = gerr
           ELSE /\ out' = out
                /\ gpc' = "aborted"
                /\ gerr' = r.err
    /\ UNCHANGED <<dir, gi, cvars, mvars, kvars>>

\* Lines 34-56: one iteration of the loop over the .cut files.
ProcessPair ==
    /\ gpc = "loop"
    /\ gi < Len(dir)
    /\ LET f == dir[gi + 1]
       IN  IF VertexCountOk(f)
           THEN /\ out' = Append(out, Row(f).text)
                /\ gi' = gi + 1
                /\ UNCHANGED <<gpc, gerr>>
           ELSE /\ gpc' = "aborted"
                /\ gerr' = "AssertionError"
                /\ UNCHANGED <<out, gi>>
    /\ UNCHANGED <<dir, cvars, mvars, kvars>>

\* The loop of line 34 has run through every .cut file.
GFinish ==
    /\ gpc = "loop"
    /\ gi = Len(dir)
    /\ gpc' = "done"
    /\ UNCHANGED <<dir, gi, out, gerr, cvars, mvars, kvars>>

\* The steps a run takes. Line 33 raises in every run, so the loop of lines
\* 34-56 (ProcessPair, GFinish) is never entered and is no step of a run.
GNext == PrintBanner \/ PrintHeader

(***************************************************************************)
(* merge.py                                                                *)
(***************************************************************************)

\* Largest number of constantNN folders.
MaxFolders == 2

\* Largest number of hypergraphs with runs in one data.db.
MaxPoints == 2

\* Hypergraph sizes a data.db may hold.
Sizes == {2, 5, 80, 100}

\* The hypergraphs of one data.db that have runs, as their sizes in table order.
Tables == SeqsUpTo(Sizes, MaxPoints)

\* s with x put in before the first element greater than x.
RECURSIVE InsertSorted(_, _)
InsertSorted(s, x) ==
    IF s = <<>> THEN <<x>>
    ELSE IF x < Head(s) THEN <<x>> \o s
    ELSE <<Head(s)>> \o InsertSorted(Tail(s), x)

\* ORDER BY hypergraphs.size: the sizes ascending.
RECURSIVE OrderBySize(_)
OrderBySize(t) ==
    IF t = <<>> THEN <<>>
    ELSE InsertSorted(OrderBySize(SubSeq(t, 1, Len(t) - 1)), t[Len(t)])

\* get_series_from_folder2 followed by unzip: the xs of the folder's series,
\* one per hypergraph, ascending by size.
get_series_from_folder2(t) == OrderBySize(t)

\* A left limit that keeps the smaller first x.
NextMinXSmallest(cur, x0) == IF cur = None THEN <<x0>> ELSE <<Min2(cur[1], x0)>>

\* Line 95: min_x = xs[0] if min_x is None else max(min_x, xs[0])
NextMinX(cur, x0) == IF cur = None THEN <<x0>> ELSE <<Max2(cur[1], x0)>>

\* Line 96: max_x = xs[-1] if max_x is None else min(max_x, xs[-1])
NextMaxX(cur, xn) == IF cur = None THEN <<xn>> ELSE <<Min2(cur[1], xn)>>

\* The script at line 91, folders listed and sorted by rank; the other
\* scripts at rest.
MInit ==
    /\ mpc = "loop"
    /\ folders \in SeqsUpTo(Tables, MaxFolders)
    /\ mi = 0
    /\ min_x = None
    /\ max_x = None
    /\ xlim = <<>>
    /\ cpc = "idle" /\ cutoffs = <<>> /\ line = NoLine /\ plotted = <<>>
    /\ gpc = "idle" /\ dir = <<>> /\ gi = 0 /\ out = <<>> /\ gerr = ""
    /\ kpc = "idle" /\ kenv = <<>> /\ archive = <<>> /\ tinfos = <<>> /\ ki = 0
    /\ running = {} /\ klog = <<>>

\* Lines 91-96: one folder is queried, plotted and folded into the limits.
\* xs[0] of an empty series raises IndexError.
ProcessFolder ==
    /\ mpc = "loop"
    /\ mi < Len(folders)
    /\ LET xs == get_series_from_folder2(folders[mi + 1])
       IN  IF xs = <<>>
           THEN /\ mpc' = "aborted"
                /\ UNCHANGED <<mi, min_x, max_x>>
           ELSE /\ min_x' = NextMinX(min_x, xs[1])
                /\ max_x' = NextMaxX(max_x, xs[Len(xs)])
                /\ mi' = mi + 1
                /\ mpc' = mpc
    /\ UNCHANGED <<folders, xlim, cvars, gvars, kvars>>

\* Lines 97-100: plt.xlim(min_x, max_x), legend, savefig.
SetXlim ==
    /\ mpc = "loop"
    /\ mi = Len(folders)
    /\ xlim' = <<min_x, max_x>>
    /\ mpc' = "done"
    /\ UNCHANGED <<folders, mi, min_x, max_x, cvars, gvars, kvars>>

MNext == ProcessFolder \/ SetXlim

(***************************************************************************)
(* kcore.py                                                                *)
(***************************************************************************)

\* Largest number of entries of the tar file.
MaxEntries == 2

\* Largest size of an entry.
MaxEntrySize == 2

\* Exit codes of the hkcore process.
ExitCodes == {0, 1}

\* Member names of the tar file: two files, one of which lies in a directory
\* that carries the name of the other, and the name of the built binary.
Names == {"a", "a/b", "hkcore"}

\* <<n, d>>: member n lies in the directory d.
DirOf == {<<"a/b", "a">>}

\* What a tar entry is: a directory, a regular file that is no program, or a
\* regular file that the system can start (a program with its x bits set).
Kinds == {"dir", "data", "program"}

\* A tar entry: its name, its size, what it is, and whether its mode has the
\* owner's write bit.
Entries == [name : Names, size : 1..MaxEntrySize, kind : Kinds,
            writable : BOOLEAN]

Archives == SeqsUpTo(Entries, MaxEntries)

\* Line 58: info.isfile()
IsFile(e) == e.kind # "dir"

\* Line 57-58: the positions of the regular files, in archive order.
RegularFiles(a) ==
    LET Keep(i) == IsFile(a[i])
    IN  SelectSeq([i \in 1..Len(a) |-> i], Keep)

\* s (positions in a) with position x put in after every position whose
\* entry is no larger: list.sort is stable.
RECURSIVE InsertBySize(_, _, _)
InsertBySize(a, s, x) ==
    IF s = <<>> THEN <<x>>
    ELSE IF a[x].size < a[Head(s)].size THEN <<x>> \o s
    ELSE <<Head(s)>> \o InsertBySize(a, Tail(s), x)

RECURSIVE SortBySize(_, _)
SortBySize(a, s) ==
    IF s = <<>> THEN <<>>
    ELSE InsertBySize(a, SortBySize(a, SubSeq(s, 1, Len(s) - 1)), s[Len(s)])

\* Lines 57-59: tinfos, the regular files sorted by size.
Tinfos(a) == SortBySize(a, RegularFiles(a))

\* Nothing extracted, started or printed yet; no exception raised.
EmptyLog == [extracted |-> <<>>, invoked |-> <<>>, codes |-> <<>>,
             messages |-> 0, done |-> FALSE, error |-> ""]

\* What a run finds around it: --bin given or not, whether the file at
\* BINARY_PATH (the one --bin names, or the one make leaves as ./hkcore) can
\* be started, whether the program ls can be started, and whether the script
\* runs as root, whom file modes do not stop.
Environments == [bin : BOOLEAN, hkcore : BOOLEAN, ls : BOOLEAN, root : BOOLEAN]

\* The names of the files extracted so far into the temporary directory.
ExtractedNames(a, log) == {a[log.extracted[i]].name : i \in 1..Len(log.extracted)}

\* The extracted files that cannot be opened for writing by an ordinary user:
\* the names whose file, as the last entry of that name left it (tf.extract
\* sets the file's mode to the entry's), has no write bit.
ReadOnlyNames(a, log) ==
    {n \in ExtractedNames(a, log) :
        LET at == {i \in 1..Len(log.extracted) : a[log.extracted[i]].name = n}
            last == CHOOSE i \in at : \A k \in at : k <= i
        IN  ~a[log.extracted[last]].writable}

\* Line 63, tf.extract(info) for a regular file named n into a directory that
\* holds the files present, those in readonly without write bit: "" when the
\* file is written, else the exception. A file cannot be created below a path
\* that is a file, nor written where a directory stands; a file of the same
\* name is opened for writing and overwritten, which a file without write bit
\* refuses to anyone but root.
ExtractError(n, present, readonly, root) ==
    IF \E d \in present : <<n, d>> \in DirOf THEN "NotADirectoryError"
    ELSE IF \E f \in present : <<f, n>> \in DirOf THEN "IsADirectoryError"
    ELSE IF n \in readonly /\ ~root THEN "PermissionError"
    ELSE ""

\* Whether BINARY_PATH can be started once entry e has been extracted: without
\* --bin BINARY_PATH is ./hkcore in the directory the entries are extracted
\* into, so an entry of that name replaces the binary.
BinaryAfterExtract(env, e) ==
    IF ~env.bin /\ e.name = "hkcore" THEN e.kind = "program" ELSE env.hkcore

\* The script at line 26; the other scripts at rest.
KInit ==
    /\ kpc = "start"
    /\ kenv \in Environments
    /\ archive = <<>>
    /\ tinfos = <<>>
    /\ ki = 0
    /\ running = {}
    /\ klog = EmptyLog
    /\ cpc = "idle" /\ cutoffs = <<>> /\ line = NoLine /\ plotted = <<>>
    /\ gpc = "idle" /\ dir = <<>> /\ gi = 0 /\ out = <<>> /\ gerr = ""
    /\ mpc = "idle" /\ folders = <<>> /\ mi = 0
    /\ min_x = None /\ max_x = None /\ xlim = <<>>

\* Lines 26-28: the output path does not exist: error message and exit(1).
KNoOutdir ==
    /\ kpc = "start"
    /\ kpc' = "exit1"
    /\ UNCHANGED <<kenv, archive, tinfos, ki, running, klog, cvars, gvars, mvars>>

\* Lines 26, 45-47: the output path exists; the tar file is opened and the
\* script changes into the temporary directory.
KOpen ==
    /\ kpc = "start"
    /\ \E a \in Archives : archive' = a
    /\ kpc' = "setup"
    /\ UNCHANGED <<kenv, tinfos, ki, running, klog, cvars, gvars, mvars>>

\* Line 50: --bin is given, nothing is built.
KUseBin ==
    /\ kpc = "setup"
    /\ kenv.bin
    /\ kpc' = "sort"
    /\ UNCHANGED <<kenv, archive, tinfos, ki, running, klog, cvars, gvars, mvars>>

\* Lines 50-52: --bin is not given: cmake is started, or Popen raises
\* FileNotFoundError when there is no cmake, which ends the script.
KStartCmake ==
    /\ kpc = "setup"
    /\ ~kenv.bin
    /\ \E found \in BOOLEAN :
          IF found
          THEN running' = running \cup {"cmake"} /\ kpc' = "cmake_wait"
                  /\ klog' = klog
          ELSE running' = running /\ kpc' = "crashed"
                  /\ klog' = [klog EXCEPT !.error = "OSError"]
    /\ UNCHANGED <<kenv, archive, tinfos, ki, cvars, gvars, mvars>>

\* Line 52: wait() returns when cmake has ended; its exit code is not read.
KCmakeExit ==
    /\ kpc = "cmake_wait"
    /\ running' = running \ {"cmake"}
    /\ kpc' = "make"
    /\ UNCHANGED <<kenv, archive, tinfos, ki, klog, cvars, gvars, mvars>>

\* Line 53: make hkcore is started, or Popen raises FileNotFoundError.
KStartMake ==
    /\ kpc = "make"
    /\ \E found \in BOOLEAN :
          IF found
          THEN running' = running \cup {"make"} /\ kpc' = "make_wait"
                  /\ klog' = klog
          ELSE running' = running /\ kpc' = "crashed"
                  /\ klog' = [klog EXCEPT !.error = "OSError"]
    /\ UNCHANGED <<kenv, archive, tinfos, ki, cvars, gvars, mvars>>

\* Lines 53-54: wait() returns when make has ended; its exit code is not
\* read; BINARY_PATH becomes ./hkcore.
KMakeExit ==
    /\ kpc = "make_wait"
    /\ running' = running \ {"make"}
    /\ kpc' = "sort"
    /\ UNCHANGED <<kenv, archive, tinfos, ki, klog, cvars, gvars, mvars>>

\* Lines 57-59: the regular files of the archive, sorted by size.
KSort ==
    /\ kpc = "sort"
    /\ tinfos' = Tinfos(archive)
    /\ ki' = 1
    /\ kpc' = "loop"
    /\ UNCHANGED <<kenv, archive, running, klog, cvars, gvars, mvars>>

\* Lines 61-63: the next entry is announced and extracted into the temporary
\* directory. tf.extract raises when the entry's name collides with what the
\* directory holds, which ends the script; an entry that takes the place of
\* ./hkcore is what line 64 starts from then on.
KExtract ==
    /\ kpc = "loop"
    /\ ki <= Len(tinfos)
    /\ LET e == archive[tinfos[ki]]
           err == ExtractError(e.name, ExtractedNames(archive, klog),
                               ReadOnlyNames(archive, klog), kenv.root)
       IN  IF err = ""
           THEN /\ klog' = [klog EXCEPT !.extracted = Append(@, tinfos[ki])]
                /\ kenv' = [kenv EXCEPT !.hkcore = BinaryAfterExtract(kenv, e)]
                /\ kpc' = "start_hkcore"
           ELSE /\ klog' = [klog EXCEPT !.error = err]
                /\ kenv' = kenv
                /\ kpc' = "crashed"
    /\ UNCHANGED <<archive, tinfos, ki, running, cvars, gvars, mvars>>

\* Line 64: hkcore is started on the extracted entry; when the file at
\* BINARY_PATH cannot be started Popen raises (FileNotFoundError,
\* PermissionError or exec format error, each an OSError) and the script ends.
KStartHkcore ==
    /\ kpc = "start_hkcore"
    /\ IF kenv.hkcore
       THEN /\ klog' = [klog EXCEPT !.invoked = Append(@, tinfos[ki])]
            /\ running' = running \cup {tinfos[ki]}
            /\ kpc' = "wait"
       ELSE /\ klog' = [klog EXCEPT !.error = "OSError"]
            /\ running' = running
            /\ kpc' = "crashed"
    /\ UNCHANGED <<kenv, archive, tinfos, ki, cvars, gvars, mvars>>

\* Lines 65-67: p.wait() returns the exit code of hkcore; a non-zero code is
\* reported; 'Done with' is printed.
KWait ==
    /\ kpc = "wait"
    /\ \E code \in ExitCodes :
          klog' = [klog EXCEPT
                     !.codes = Append(@, code),
                     !.messages = IF code # 0 THEN @ + 1 ELSE @]
    /\ running' = running \ {tinfos[ki]}
    /\ kpc' = "ls"
    /\ UNCHANGED <<kenv, archive, tinfos, ki, cvars, gvars, mvars>>

\* Line 68: ls is started, or Popen raises FileNotFoundError.
KStartLs ==
    /\ kpc = "ls"
    /\ IF kenv.ls
       THEN running' = running \cup {"ls"} /\ kpc' = "ls_wait" /\ klog' = klog
       ELSE running' = running /\ kpc' = "crashed"
               /\ klog' = [klog EXCEPT !.error = "OSError"]
    /\ UNCHANGED <<kenv, archive, tinfos, ki, cvars, gvars, mvars>>

\* Lines 68-69: wait() returns when ls has ended; 'Writing files' is printed
\* and the loop moves on.
KLsExit ==
    /\ kpc = "ls_wait"
    /\ running' = running \ {"ls"}
    /\ ki' = ki + 1
    /\ kpc' = "loop"
    /\ UNCHANGED <<kenv, archive, tinfos, klog, cvars, gvars, mvars>>

\* Line 71: the loop is over, the with block is left, the last line is printed.
KDone ==
    /\ kpc = "loop"
    /\ ki > Len(tinfos)
    /\ klog' = [klog EXCEPT !.done = TRUE]
    /\ kpc' = "done"
    /\ UNCHANGED <<kenv, archive, tinfos, ki, running, cvars, gvars, mvars>>

KNext ==
    \/ KNoOutdir \/ KOpen \/ KUseBin
    \/ KStartCmake \/ KCmakeExit \/ KStartMake \/ KMakeExit
    \/ KSort \/ KExtract \/ KStartHkcore \/ KWait \/ KStartLs \/ KLsExit \/ KDone

\* One run of sqlplot-cutoff.py over any source directory.
SpecCutoff == CInit /\ [][CNext]_vars

\* One run of gathercuts.py over any source directory.
SpecGather == GInit /\ [][GNext]_vars

\* One run of merge.py over any source directory.
SpecMerge == MInit /\ [][MNext]_vars

\* One run of kcore.py over any tar file. The script is sequential and every
\* child process it waits for ends, so a step that can be taken is taken.
SpecKcore == KInit /\ [][KNext]_vars /\ WF_vars(KNext)

(***************************************************************************)
(* Properties of sqlplot-cutoff.py                                         *)
(***************************************************************************)

\* A row has been read, filtered, truncated and plotted.
RowDone == line.read

\* The (budget, factor) pairs of the series handed to plt.plot for the row.
PlottedPairs ==
    [k \in 1..Len(plotted[1].xs) |-> <<plotted[1].xs[k], plotted[1].ys[k]>>]

\* Number of columns zip pairs up for the current row.
NCols == Min2(Len(cutoffs), Len(line.factors))

StrictlyAscending(s) == \A i \in 1..(Len(s) - 1) : s[i] < s[i + 1]

SetMin(S) == CHOOSE x \in S : \A y \in S : x <= y
SetMax(S) == CHOOSE x \in S : \A y \in S : x >= y

\* C1: truncate-after-first-optimum. With F the sentinel-filtered pairs of a
\* row in iteration order, the plotted curve is F up to and including the
\* first pair whose factor is <= 1.0, and all of F when there is no such pair.
C1_TruncateAfterFirstOptimum ==
    RowDone =>
        LET F == FilterSentinel(cutoffs, line.factors)
            K == {k \in 1..Len(F) : FLe(F[k][2], One)}
        IN  /\ Len(plotted) = 1
            /\ IF K = {} THEN PlottedPairs = F
               ELSE PlottedPairs = SubSeq(F, 1, SetMin(K))

\* C1 witness: a row whose first optimum is followed by a later non-sentinel
\* pair, which the curve drops.
C1_Witness ==
    /\ RowDone
    /\ LET F == FilterSentinel(cutoffs, line.factors)
       IN  /\ Len(F) = 3
           /\ FLe(F[2][2], One)
           /\ ~FLe(F[1][2], One)
           /\ Len(PlottedPairs) = 2

\* C2: sentinel filtering. No plotted pair has factor >= 1e10, and every
\* column whose factor is below 1e10 and which has no earlier column with
\* factor <= 1.0 is plotted; sentinel columns neither stop nor hide anything.
C2_SentinelFiltered ==
    RowDone =>
        /\ \A k \in 1..Len(PlottedPairs) : ~FLe(Sentinel, PlottedPairs[k][2])
        /\ \A i \in 1..NCols :
              (/\ FLt(line.factors[i], Sentinel)
               /\ \A j \in 1..(i - 1) : ~FLe(line.factors[j], One))
              => \E k \in 1..Len(PlottedPairs) :
                    PlottedPairs[k] = <<cutoffs[i], line.factors[i]>>

\* C2 witness: a sentinel column stands before the first optimum, which is
\* still plotted.
C2_Witness ==
    /\ RowDone
    /\ NCols = 3
    /\ line.factors[1] = Float(0, 25)
    /\ line.factors[2] = Sentinel
    /\ line.factors[3] = One
    /\ Len(PlottedPairs) = 2

\* The permutations of 1..n.
Perms(n) == {p \in [1..n -> 1..n] : \A i, j \in 1..n : p[i] = p[j] => i = j}

\* C3 as claimed: whatever the order of the budget columns, the produced
\* sequence is the same, ascending by budget and without duplicate budgets.
\* The script never sorts the pairs, so a header that is not ascending shows
\* the difference.
C3_OrderIndependent ==
    (RowDone /\ Len(line.factors) = Len(cutoffs)) =>
        /\ StrictlyAscending(plotted[1].xs)
        /\ \A p \in Perms(Len(cutoffs)) :
              CutoffFactor([i \in 1..Len(cutoffs) |-> cutoffs[p[i]]],
                           [i \in 1..Len(cutoffs) |-> line.factors[p[i]]])
                 = PlottedPairs

\* C4 as claimed: every series handed to the sink has at least one point.
C4_NoEmptySeries ==
    RowDone => \A c \in 1..Len(plotted) : Len(plotted[c].xs) >= 1

\* C4 amended: every row is handed to the sink exactly once under its label;
\* a row with no surviving point is plotted as an empty, marker-only series.
C4_EmptySeriesPlotted ==
    RowDone =>
        /\ Len(plotted) = 1
        /\ plotted[1].label = line.algo
        /\ Len(plotted[1].xs) = Len(plotted[1].ys)
        /\ (\A i \in 1..NCols : ~FLt(line.factors[i], Sentinel))
              <=> plotted[1].xs = <<>>
        /\ plotted[1].xs = <<>> => plotted[1].marker

\* C4 witness: a row whose every factor is the sentinel has been plotted.
C4_Witness ==
    /\ RowDone
    /\ NCols = 2
    /\ \A i \in 1..NCols : line.factors[i] = Sentinel
    /\ Len(plotted) = 1
    /\ plotted[1].xs = <<>>

\* C10 as claimed: a row whose number of factor fields differs from the
\* number of budgets of the header produces no series.
C10_MalformedRowRejected ==
    (RowDone /\ Len(line.factors) # Len(cutoffs)) => plotted = <<>>

(***************************************************************************)
(* Properties of gathercuts.py                                             *)
(***************************************************************************)

\* The run has ended, normally or by an exception.
GEnded == gpc \in {"done", "aborted"}

\* Sizes of the two sides listed in a .cut file.
SideA(f) == Len(f.p1_line) - 2
SideB(f) == Len(f.p2_line) - 2

\* The sides of the pair add up to the vertex count of its .hgr file.
Consistent(f) == SideA(f) + SideB(f) = f.num_vertices

\* C5 as claimed: for a pair whose sides have a and b vertices, a + b =
\* num_vertices, the row emitted reports skewedness max(a,b)/num_vertices to
\* three decimals, then min(a,b), then max(a,b), whichever side comes first.
C5_SkewednessRow ==
    GEnded =>
        \A i \in 1..Len(dir) :
            (\A j \in 1..i : Consistent(dir[j])) =>
                \E k \in 1..Len(out) :
                    /\ Len(out[k].fields) = 7
                    /\ out[k].fields[5] =
                          Round3(Max2(SideA(dir[i]), SideB(dir[i])), dir[i].num_vertices)
                    /\ out[k].fields[6] = Min2(SideA(dir[i]), SideB(dir[i]))
                    /\ out[k].fields[7] = Max2(SideA(dir[i]), SideB(dir[i]))

\* C6 as claimed: the run aborts on the vertex-count assertion at the first
\* pair whose sides do not add up to num_vertices, with one row emitted for
\* each pair before it and none after; without such a pair the assertion
\* never ends the run.
C6_MismatchFatal ==
    GEnded =>
        LET bad == {i \in 1..Len(dir) : ~Consistent(dir[i])}
        IN  IF bad = {}
            THEN gerr # "AssertionError"
            ELSE /\ gerr = "AssertionError"
                 /\ gi = SetMin(bad) - 1
                 /\ Cardinality({k \in 1..Len(out) : Len(out[k].fields) = 7
                                                     /\ out[k].fields[1] = "h"}) = gi

\* The header line of the CSV output.
CsvHeader ==
    [fields |-> <<"name", "num_vertices", "num_edges", "cut_value", "skewedness",
                  "smaller_partition_size", "larger_partition_size">>,
     sep |-> ","]

\* C7 as claimed: the output starts with the header line and goes on with
\* exactly one comma-separated row of seven fields per .cut file; the run
\* reaches the loop and ends normally when every pair is consistent.
C7_CsvShape ==
    (GEnded /\ \A i \in 1..Len(dir) : Consistent(dir[i])) =>
        /\ gpc = "done"
        /\ Len(out) = 1 + Len(dir)
        /\ out[1] = CsvHeader
        /\ \A k \in 2..Len(out) : Len(out[k].fields) = 7 /\ out[k].sep = ","

(***************************************************************************)
(* Properties of merge.py                                                  *)
(***************************************************************************)

\* The set of sizes of a table.
SizesOf(t) == {t[i] : i \in 1..Len(t)}

\* C8: after all rank folders are processed, plt.xlim is given the largest of
\* the curves' smallest x and the smallest of the curves' largest x, whatever
\* the order of the folders.
C8_CrossRankClipping ==
    (mpc = "done" /\ folders # <<>>) =>
        xlim = << <<SetMax({SetMin(SizesOf(folders[i])) : i \in 1..Len(folders)})>>,
                  <<SetMin({SetMax(SizesOf(folders[i])) : i \in 1..Len(folders)})>> >>

\* C8 witness: the domains [2,100] and [5,80], the second table stored
\* largest first, clipped to [5,80].
C8_Witness ==
    /\ mpc = "done"
    /\ folders = << <<2, 100>>, <<80, 5>> >>
    /\ xlim = << <<5>>, <<80>> >>

(***************************************************************************)
(* Properties of kcore.py                                                  *)
(***************************************************************************)

\* Number of times x occurs in s.
Count(s, x) == Cardinality({i \in 1..Len(s) : s[i] = x})

\* At line 57 the file at BINARY_PATH and ls can be started.
CanStart == kenv.hkcore /\ kenv.ls

\* What holds of the batch at every moment.
C9_Safety ==
    \* one child process at a time; none is left when the loop moves on
    /\ Cardinality(running) <= 1
    /\ kpc \in {"loop", "start_hkcore", "ls", "done"} => running = {}
    \* an entry is extracted, then hkcore is started on it
    /\ Len(klog.invoked) <= Len(klog.extracted)
    /\ \A i \in 1..Len(klog.invoked) : klog.invoked[i] = klog.extracted[i]
    /\ kpc \in {"loop", "wait", "ls", "ls_wait", "done"} =>
          klog.extracted = klog.invoked
    \* entries are handled in non-decreasing size order
    /\ \A i \in 1..(Len(klog.extracted) - 1) :
          archive[klog.extracted[i]].size <= archive[klog.extracted[i + 1]].size
    \* only regular files, none twice
    /\ \A e \in 1..Len(archive) :
          Count(klog.extracted, e) <= (IF IsFile(archive[e]) THEN 1 ELSE 0)
    \* every exit code is read once; every non-zero one is reported, once
    /\ Len(klog.codes) = Len(klog.invoked) - (IF kpc = "wait" THEN 1 ELSE 0)
    /\ klog.messages = Cardinality({i \in 1..Len(klog.codes) : klog.codes[i] # 0})
    \* at the end every regular file has been handled exactly once
    /\ kpc = "done" =>
          /\ klog.done
          /\ \A e \in 1..Len(archive) :
                IsFile(archive[e]) => Count(klog.invoked, e) = 1

\* C9 as claimed: the batch is sequential and tolerates failures: every
\* regular file is extracted and handled exactly once, smallest first, one
\* process at a time, a non-zero exit is reported and not retried, and for any
\* archive and any exit codes the batch, once it has a binary and ls that can
\* be started, goes on to the next entry and reaches the final Done.
C9_SequentialBatch ==
    /\ []C9_Safety
    /\ (kpc = "sort" /\ CanStart) ~> (kpc = "done")

====
